---- MODULE Spec2Model ----
(***************************************************************************)
(* Layered VHDX System Manager: the backend workflows (create base, create *)
(* diff, cascading delete, repair, mount/unmount, scan) over the Node      *)
(* Store (nodes, ops, settings.seq_counter) and the machine's physical     *)
(* state (VHDX files, attached disks, mount points, drive letters, BCD     *)
(* entries), driven by the commands the UI invokes.                        *)
(***************************************************************************)
EXTENDS Integers, Sequences, FiniteSets, TLC

\* ---------------------------------------------------------------- bounds
MaxSeq == 3         \* creation attempts (values of settings.seq_counter)
MaxOps == 3         \* rows of the ops table at which new commands stop
MaxOob == 1         \* out-of-band changes made behind the tool's back
TreeSeq == 5        \* sequence numbers handed out while a tree is grown and cut
TreeOps == 6        \* operation rows after which no tree command is invoked
BcdSeq == 2
BcdOps == 4
BcdOob == 2
ListLen == 3
DelSeq == 2
DelOps == 4
DelOob == 1
MountSeq == 2
MountOps == 5
ScanSeq == 3        \* disks created before the workspace is scanned
ScanOps == 3        \* operation rows after which no disk is created for a scan
ScanOob == 2        \* out-of-band changes a scan may meet

\* ------------------------------------------------------------- constants
NULL == 0           \* parent_id / bcd_guid absent (null)
PadWidth == 4       \* <seq> is printed with at least 4 digits

Procs == {1, 2}     \* command handlers that may run at the same time
Slugs == {"a"}      \* slugs of the names the user types

\* ------------------------------------------------------------ file names
DigitChars == <<"0", "1", "2", "3", "4", "5", "6", "7", "8", "9">>

RECURSIVE Digits(_)
Digits(n) == IF n < 10 THEN <<DigitChars[n + 1]>>
             ELSE Digits(n \div 10) \o <<DigitChars[(n % 10) + 1]>>

RECURSIVE PadLeft(_, _)
PadLeft(s, width) == IF Len(s) >= width THEN s ELSE PadLeft(<<"0">> \o s, width)

\* the file named by its slug alone
VhdxPathNoSeq(dir, seq, slug) == <<dir, "/", slug, ".vhdx">>

\* <seq>-<slug>.vhdx under base/ or diff/
VhdxPath(dir, seq, slug) ==
    <<dir, "/">> \o PadLeft(Digits(seq), PadWidth) \o <<"-", slug, ".vhdx">>

NoPath == <<>>

\* ------------------------------------------------------------------ state
VARIABLES
    nodes,        \* nodes table: set of Node rows
    ops,          \* ops table: sequence of Operation rows, in insertion order
    seq_counter,  \* settings.seq_counter
    files,        \* VHDX files on disk: [path, parent]
    attached,     \* paths of the virtual disks currently attached
    mounts,       \* mount-point directories that exist (meta/mnt-*)
    letters,      \* temporary drive letters assigned
    bcd,          \* machine boot entries: [guid, path]
    guid_counter, \* boot entries minted so far
    lock,         \* workspace lock: NULL or the handler holding it
    pc,           \* per handler: the step it is at
    cmd,          \* per handler: the command it runs and its locals
    issued,       \* history: sequence numbers begin_node handed out
    aborted,      \* history: ids of reservations that were aborted
    born,         \* history: per committed id, its parent_id, path and the ids persisted then
    oob,          \* out-of-band changes made so far
    bootsequence, \* the boot entry armed for the next start only, or NULL
    restarts,     \* how many times the machine was restarted
    elevated,     \* the application runs with administrator rights
    settings,     \* the settings row exists: a root directory has been initialised
    admin,        \* UI state admin: "unknown" (null), "yes" or "no"
    uiStatus,     \* UI state status: "idle", "initialized" or "error"
    workspaceReady, \* UI state workspaceReady
    uiNodes,      \* UI state nodes: the list last received from the backend
    selectedNode, \* UI state selectedNode: an id, or NULL for ""
    handler,      \* the UI handler that is waiting for a command, and where
    listing,      \* a refreshNodes call is waiting for list_nodes
    effects,      \* effects whose dependencies changed and that have not run yet
    calls,        \* commands the UI has invoked so far
    lastCmd,      \* the last command the UI invoked and whether it succeeded
    oobAtOpen,    \* history: out-of-band changes made when the workspace was opened
    treeData      \* UI memo treeData: the tree built from the list, or NoTree

vars == <<nodes, ops, seq_counter, files, attached, mounts, letters, bcd,
          guid_counter, lock, pc, cmd, issued, aborted, born, oob,
          bootsequence, restarts, elevated, settings, admin, uiStatus,
          workspaceReady, uiNodes, selectedNode, handler, listing, effects,
          calls, lastCmd, oobAtOpen, treeData>>

store == <<nodes, ops, seq_counter>>
phys == <<files, attached, mounts, letters, bcd, guid_counter>>
hist == <<issued, aborted, born>>
machine == <<bootsequence, restarts>>
view == <<admin, uiStatus, workspaceReady, uiNodes, selectedNode, treeData>>
ui == <<elevated, settings, view, handler, listing, effects, calls, lastCmd, oobAtOpen>>

NodeIds == {n.id : n \in nodes}
NodeOf(id) == CHOOSE n \in nodes : n.id = id

NoHandle == [id |-> NULL, seq |-> NULL, path |-> NoPath, name |-> "", parent_id |-> NULL]

NoCmd == [kind |-> "none", arg |-> NULL, name |-> "", h |-> NoHandle, guid |-> NULL,
          todo |-> <<>>, att |-> {}, mnt |-> {}, ltr |-> {}, pre |-> {}]

NoTree == [roots |-> <<>>, children |-> <<>>]

NoUiCmd == [name |-> "none", ok |-> TRUE]

\* the handler that runs when the application starts
Bootstrap == [name |-> "bootstrap", step |-> "check_admin"]

NoHandler == [name |-> "none", step |-> "none"]

\* the UI as the application starts with it, showing `list`
InitUi(list) ==
    /\ admin = "unknown"
    /\ uiStatus = "idle"
    /\ workspaceReady = FALSE
    /\ uiNodes = list
    /\ selectedNode = NULL
    /\ handler = Bootstrap
    /\ listing = FALSE
    /\ effects = {"select", "refresh"}
    /\ calls = 0
    /\ lastCmd = NoUiCmd
    /\ oobAtOpen = 0
    /\ treeData = NoTree

InitBackend ==
    /\ nodes = {}
    /\ ops = <<>>
    /\ seq_counter = 0
    /\ files = {}
    /\ attached = {}
    /\ mounts = {}
    /\ letters = {}
    /\ bcd = {}
    /\ guid_counter = 0
    /\ lock = NULL
    /\ pc = [p \in Procs |-> "idle"]
    /\ cmd = [p \in Procs |-> NoCmd]
    /\ issued = <<>>
    /\ aborted = {}
    /\ born = {}
    /\ oob = 0
    /\ bootsequence = NULL
    /\ restarts = 0
    /\ settings = FALSE

\* nothing exists yet; the application runs elevated and has just started
Init == InitBackend /\ elevated = TRUE /\ InitUi(<<>>)

\* ------------------------------------------------------------- Node Store
Row(node_id, action, result) == [node_id |-> node_id, action |-> action, result |-> result]

NextSeqStuck(counter) == counter

\* settings.seq_counter auto-increments to mint <seq>-<slug>.vhdx
NextSeq(counter) == counter + 1

Dir(kind) == IF kind = "create_base_vhd" THEN "base" ELSE "diff"

\* begin_node: the reservation (sequence number, id, file path) of a draft
Reserve(kind, name, parent_id) ==
    LET seq == NextSeq(seq_counter) IN
    [id |-> seq, seq |-> seq, path |-> VhdxPath(Dir(kind), seq, name),
     name |-> name, parent_id |-> parent_id]

NewNode(h, guid) ==
    [id |-> h.id, parent_id |-> h.parent_id, name |-> h.name, path |-> h.path,
     bcd_guid |-> guid, status |-> "normal", boot_files_ready |-> TRUE]

CommitOpsNoRow(o, row) == o

CommitOpsTwice(o, row) == Append(Append(o, row), row)

\* the rows of the node go with it
CommitOpsPurge(o, row) ==
    Append(SelectSeq(o, LAMBDA r : r.node_id # row.node_id), row)

\* the create/delete transaction writes nodes and ops together
CommitOps(o, row) == Append(o, row)

\* abort_node: the reservation is discarded, the tree is left as it was
AbortRows(ns, h) == ns

ParentKnownAlways(id) == TRUE

\* the parent of a new diff node is looked up in the nodes table
ParentKnown(id) == id \in NodeIds

\* --------------------------------------------------------------- the tree
Children(ns, id) == {n.id : n \in {m \in ns : m.parent_id = id}}

RECURSIVE Subtree(_, _)
Subtree(ns, id) ==
    {id} \cup UNION {Subtree({m \in ns : m.id # id}, c) : c \in Children(ns, id)}

RECURSIVE Depth(_, _, _)
Depth(ns, root, id) ==
    IF id = root THEN 0
    ELSE Depth(ns, root, (CHOOSE n \in ns : n.id = id).parent_id) + 1

RECURSIVE SortedIds(_)
SortedIds(S) == IF S = {} THEN <<>>
                ELSE LET m == CHOOSE x \in S : \A y \in S : x <= y
                     IN <<m>> \o SortedIds(S \ {m})

\* DFS collection of the subtree (target included), children in creation order
RECURSIVE Dfs(_, _)
RECURSIVE DfsList(_, _)
DfsTargetOnly(ns, id) == <<id>>

Dfs(ns, id) == <<id>> \o DfsList(ns, SortedIds(Children(ns, id)))
DfsList(ns, ids) == IF ids = <<>> THEN <<>>
                    ELSE Dfs(ns, Head(ids)) \o DfsList(ns, Tail(ids))

AtDepth(ns, root, list, d) ==
    SelectSeq(list, LAMBDA id : Depth(ns, root, id) = d)

RECURSIVE Levels(_, _, _, _)
RECURSIVE LevelsShallowFirst(_, _, _, _)
LevelsShallowFirst(ns, root, list, d) ==
    IF d < 0 THEN <<>>
    ELSE LevelsShallowFirst(ns, root, list, d - 1) \o AtDepth(ns, root, list, d)

Levels(ns, root, list, d) ==
    IF d < 0 THEN <<>>
    ELSE AtDepth(ns, root, list, d) \o Levels(ns, root, list, d - 1)

MaxDepth(ns, root) ==
    LET S == Subtree(ns, root)
    IN CHOOSE d \in 0..Cardinality(S) :
          /\ \E id \in S : Depth(ns, root, id) = d
          /\ \A id \in S : Depth(ns, root, id) <= d

DeleteOrderAsCollected(ns, root) == Dfs(ns, root)

\* the subtree level by level, the deepest level first
DeleteOrder(ns, root) == Levels(ns, root, Dfs(ns, root), MaxDepth(ns, root))

\* -------------------------------------------------------------- workflows
\* initial disk creation, steps 3-8
BaseFlow ==
    <<"script", "mount", "apply", "bcdboot", "resolve", "release", "commit", "finish">>

\* diff node creation, steps 2-5: the node is recorded, then the disk detached
DiffFlow ==
    <<"script", "mount", "bcdboot", "resolve", "commit", "release", "finish">>

\* repair of a missing BCD entry
RepairFlow ==
    <<"attach", "mount", "bcdboot", "resolve", "update", "release", "finish">>

\* mount: attach, list volumes, create the mount-point directory
MountFlow == <<"attach", "mount", "mark", "finish">>

\* unmount: remove the mount point and detach
UnmountFlow == <<"release", "unmark", "finish">>

\* cascading delete, per node: detach, bcdedit /delete, delete file, delete row
DeleteFlowRowFirst == <<"del_row", "del_detach", "del_bcd", "del_file">>

\* per node: detach, bcdedit /delete, delete the file, delete the row
DeleteFlow == <<"del_detach", "del_bcd", "del_file", "del_row">>

\* bcdedit /bootsequence {guid}, the history row, shutdown /r /t 0
BootFlowRestartFirst == <<"restart", "arm", "record", "finish">>
BootFlow == <<"arm", "record", "restart", "finish">>

Flow(kind) ==
    CASE kind = "create_base_vhd" -> BaseFlow
      [] kind = "create_diff_vhd" -> DiffFlow
      [] kind = "repair_bcd" -> RepairFlow
      [] kind = "mount" -> MountFlow
      [] kind = "unmount" -> UnmountFlow
      [] kind = "set_bootsequence_and_reboot" -> BootFlow
      [] OTHER -> DeleteFlow

IndexOf(seq, x) == CHOOSE i \in 1..Len(seq) : seq[i] = x

StepAfter(kind, step) == Flow(kind)[IndexOf(Flow(kind), step) + 1]

Creates(kind) == kind \in {"create_base_vhd", "create_diff_vhd"}

Kinds == {"create_base_vhd", "create_diff_vhd", "delete_subtree", "repair_bcd",
          "mount", "unmount"}

\* the disk a command works on: the reserved file, or the target node's file
DiskPath(c) == IF Creates(c.kind) THEN c.h.path
               ELSE IF c.kind = "delete_subtree" THEN NodeOf(Head(c.todo)).path
               ELSE NodeOf(c.arg).path

DiskId(c) == IF Creates(c.kind) THEN c.h.id
             ELSE IF c.kind = "delete_subtree" THEN Head(c.todo)
             ELSE c.arg

\* meta/mnt-sys-<id> and meta/mnt-efi
SysMount(id) == <<"mnt-sys", id>>
EfiMount == <<"mnt-efi", NULL>>
TempLetter == "S:"

At(p, step) == pc[p] = step /\ lock = p

Goto(p, step) == pc' = [pc EXCEPT ![p] = step]

\* the handler moves past `step` with its locals now c; the last step of a
\* flow releases the workspace lock and hands the result to the caller
Proceed(p, c, step) ==
    LET nxt == StepAfter(c.kind, step) IN
    IF nxt = "finish"
    THEN /\ lock' = NULL
         /\ Goto(p, "idle")
         /\ cmd' = [cmd EXCEPT ![p] = NoCmd]
    ELSE /\ lock' = lock
         /\ Goto(p, nxt)
         /\ cmd' = [cmd EXCEPT ![p] = c]

LockFreeAlways == TRUE

\* the workspace lock is free
LockFree == lock = NULL

\* the UI invokes a command; nothing in the UI waits for the one in flight
Invoke(p, maxOps) ==
    /\ pc[p] = "idle"
    /\ Len(ops) < maxOps
    /\ Goto(p, "lock")
    /\ UNCHANGED <<store, phys, hist, lock, cmd, oob, machine, ui>>

\* a command that finds the lock held is rejected (or keeps waiting)
Reject(p) ==
    /\ pc[p] = "lock"
    /\ ~LockFree
    /\ Goto(p, "idle")
    /\ UNCHANGED <<store, phys, hist, lock, cmd, oob, machine, ui>>

\* the workflows that change disks, boot entries or the tree
Destructive == {"create_base_vhd", "create_diff_vhd", "delete_subtree", "repair_bcd",
                "set_bootsequence_and_reboot"}

\* administrator rights are checked before a destructive workflow starts
Permitted(kind) == elevated \/ kind \notin Destructive

\* the command `kind` on node `arg` takes the lock, looks its node up and,
\* for a creation, reserves the sequence number, id and file name
Start(p, kind, arg, name, maxSeq) ==
    /\ pc[p] = "lock"
    /\ LockFree
    /\ Creates(kind) => seq_counter < maxSeq
    /\ (kind = "create_base_vhd") = (arg = NULL)
    /\ LET c == [NoCmd EXCEPT !.kind = kind, !.arg = arg, !.name = name,
                              !.pre = nodes] IN
       IF ~Permitted(kind)
       THEN /\ Goto(p, "idle")
            /\ UNCHANGED <<store, hist, lock, cmd>>
       ELSE IF kind = "create_base_vhd" \/ (kind = "create_diff_vhd" /\ ParentKnown(arg))
       THEN LET h == Reserve(kind, name, arg) IN
            /\ seq_counter' = h.seq
            /\ issued' = Append(issued, h.seq)
            /\ cmd' = [cmd EXCEPT ![p] = [c EXCEPT !.h = h]]
            /\ lock' = p
            /\ Goto(p, Flow(kind)[1])
            /\ UNCHANGED <<nodes, ops, aborted, born>>
       ELSE IF ~Creates(kind) /\ arg \in NodeIds
       THEN /\ cmd' = [cmd EXCEPT ![p] =
                         [c EXCEPT !.todo = IF kind = "delete_subtree"
                                            THEN DeleteOrder(nodes, arg)
                                            ELSE <<>>]]
            /\ lock' = p
            /\ Goto(p, Flow(kind)[1])
            /\ UNCHANGED <<store, hist>>
       ELSE /\ Goto(p, "idle")
            /\ UNCHANGED <<store, hist, lock, cmd>>
    /\ UNCHANGED <<phys, oob, machine, ui>>

\* a command of `kinds` arrives with its arguments
Begin(p, kinds, maxSeq) ==
    \E kind \in kinds, arg \in 0..seq_counter, name \in Slugs :
        Start(p, kind, arg, name, maxSeq)

\* the steps that run an external tool
ToolSteps == {"script", "attach", "mount", "apply", "bcdboot", "bcdboot_letter",
              "resolve", "release", "del_detach", "del_bcd", "del_file", "arm"}

DeleteSteps == {"del_detach", "del_bcd", "del_file"}

\* any external tool may fail: the step has no effect and the workflow unwinds
StepFails(p, steps) ==
    /\ lock = p
    /\ pc[p] \in steps
    /\ Goto(p, "cleanup")
    /\ UNCHANGED <<store, phys, hist, lock, cmd, oob, machine, ui>>

\* ------------------------------------------------------- Disk Orchestrator
ReleasedNothing(held, mine) == held

\* mount points, drive letters and attachments are cleaned up after use
Released(held, mine) == held \ mine

FileAt(path) == {f \in files : f.path = path}

ParentPathNone(c) == NoPath

\* create vdisk ... parent=<the parent node's file>
ParentPath(c) == IF c.h.parent_id \in NodeIds THEN NodeOf(c.h.parent_id).path ELSE NoPath

\* diskpart: create vdisk (parent=<parent> for a diff), attach vdisk, partition
Script(p) ==
    /\ At(p, "script")
    /\ LET c == cmd[p] IN
       /\ files' = files \cup {[path |-> c.h.path, parent |-> ParentPath(c)]}
       /\ attached' = attached \cup {c.h.path}
       /\ Proceed(p, [c EXCEPT !.att = {c.h.path}], "script")
    /\ UNCHANGED <<store, hist, mounts, letters, bcd, guid_counter, oob, machine, ui>>

\* the script failed half way: the file exists and is attached
ScriptPartial(p) ==
    /\ At(p, "script")
    /\ LET c == cmd[p] IN
       /\ files' = files \cup {[path |-> c.h.path, parent |-> ParentPath(c)]}
       /\ attached' = attached \cup {c.h.path}
       /\ cmd' = [cmd EXCEPT ![p].att = {c.h.path}]
    /\ Goto(p, "cleanup")
    /\ UNCHANGED <<store, hist, mounts, letters, bcd, guid_counter, lock, oob, machine, ui>>

\* diskpart: attach vdisk (of an existing node's file)
Attach(p) ==
    /\ At(p, "attach")
    /\ LET c == cmd[p] IN
       /\ FileAt(DiskPath(c)) # {}
       /\ DiskPath(c) \notin attached
       /\ attached' = attached \cup {DiskPath(c)}
       /\ Proceed(p, [c EXCEPT !.att = {DiskPath(c)}], "attach")
    /\ UNCHANGED <<store, hist, files, mounts, letters, bcd, guid_counter, oob, machine, ui>>

\* the mount-point directories a command needs: the system partition's, and
\* the EFI partition's unless it only mounts the disk for viewing
MountsOf(c) == IF c.kind = "mount" THEN {SysMount(DiskId(c))}
               ELSE {SysMount(DiskId(c)), EfiMount}

Mount(p) ==
    /\ At(p, "mount")
    /\ LET c == cmd[p] IN
       /\ MountsOf(c) \cap mounts = {}
       /\ mounts' = mounts \cup MountsOf(c)
       /\ Proceed(p, [c EXCEPT !.mnt = MountsOf(c)], "mount")
    /\ UNCHANGED <<store, hist, files, attached, letters, bcd, guid_counter, oob, machine, ui>>

\* dism /Apply-Image into the system mount
Apply(p) ==
    /\ At(p, "apply")
    /\ Proceed(p, cmd[p], "apply")
    /\ UNCHANGED <<store, hist, phys, oob, machine, ui>>

\* bcdboot <sys>\Windows /s <efi> /f UEFI: a boot entry for the disk appears
Bcdboot(p) ==
    /\ At(p, "bcdboot")
    /\ guid_counter' = guid_counter + 1
    /\ bcd' = bcd \cup {[guid |-> guid_counter + 1, path |-> DiskPath(cmd[p])]}
    /\ Proceed(p, cmd[p], "bcdboot")
    /\ UNCHANGED <<store, hist, files, attached, mounts, letters, oob, machine, ui>>

\* bcdboot does not take the directory: fall back to a temporary drive letter
BcdbootFallback(p) ==
    /\ At(p, "bcdboot")
    /\ TempLetter \notin letters
    /\ letters' = letters \cup {TempLetter}
    /\ cmd' = [cmd EXCEPT ![p].ltr = {TempLetter}]
    /\ Goto(p, "bcdboot_letter")
    /\ UNCHANGED <<store, hist, files, attached, mounts, bcd, guid_counter, lock, oob, machine, ui>>

\* bcdboot with the drive letter, which is removed as soon as it is done
BcdbootLetter(p) ==
    /\ At(p, "bcdboot_letter")
    /\ guid_counter' = guid_counter + 1
    /\ bcd' = bcd \cup {[guid |-> guid_counter + 1, path |-> DiskPath(cmd[p])]}
    /\ letters' = Released(letters, cmd[p].ltr)
    /\ Proceed(p, cmd[p], "bcdboot")
    /\ UNCHANGED <<store, hist, files, attached, mounts, oob, machine, ui>>

\* a path as Windows compares it: letter case does not count
LowerOf(s) ==
    CASE s = "BASE" -> "base"
      [] s = "DIFF" -> "diff"
      [] s = "A" -> "a"
      [] s = ".VHDX" -> ".vhdx"
      [] OTHER -> s

UpperOf(s) ==
    CASE s = "base" -> "BASE"
      [] s = "diff" -> "DIFF"
      [] s = "a" -> "A"
      [] s = ".vhdx" -> ".VHDX"
      [] OTHER -> s

Fold(path) == [i \in 1..Len(path) |-> LowerOf(path[i])]
Shout(path) == [i \in 1..Len(path) |-> UpperOf(path[i])]

\* bcdedit /enum all, entries whose device is vhd=[<path>]
MatchesExactCase(path) == {e \in bcd : e.path = path}
Matches(path) == {e \in bcd : Fold(e.path) = Fold(path)}

\* a creation does not go on without the boot entry bcdboot has just written
NeedsEntryNever(kind) == FALSE
NeedsEntry(kind) == Creates(kind)

Resolve(p) ==
    /\ At(p, "resolve")
    /\ LET m == Matches(DiskPath(cmd[p])) IN
       /\ Cardinality(m) <= 1
       /\ NeedsEntry(cmd[p].kind) => m # {}
       /\ Proceed(p, [cmd[p] EXCEPT !.guid = IF m = {} THEN NULL
                                              ELSE (CHOOSE e \in m : TRUE).guid],
                  "resolve")
    /\ UNCHANGED <<store, hist, phys, oob, machine, ui>>

\* an unmount that removes the mount point and leaves the disk attached
MineNoDetach(c) == IF c.kind = "unmount"
                   THEN [att |-> {}, mnt |-> {SysMount(c.arg)}, ltr |-> {}]
                   ELSE [att |-> c.att, mnt |-> c.mnt, ltr |-> c.ltr]

\* the mount points and letters a command gives back, and the disk it detaches
Mine(c) == IF c.kind = "unmount"
           THEN [att |-> {DiskPath(c)}, mnt |-> {SysMount(c.arg)}, ltr |-> {}]
           ELSE [att |-> c.att, mnt |-> c.mnt, ltr |-> c.ltr]

\* remove the mount points / letters, detach vdisk
Release(p) ==
    /\ At(p, "release")
    /\ LET c == cmd[p] IN
       /\ mounts' = Released(mounts, Mine(c).mnt)
       /\ letters' = Released(letters, Mine(c).ltr)
       /\ attached' = Released(attached, Mine(c).att)
       /\ Proceed(p, c, "release")
    /\ UNCHANGED <<store, hist, files, bcd, guid_counter, oob, machine, ui>>

\* ------------------------------------------------ Node Store transactions
\* commit_node: the Node row and its Operation row in one transaction
Commit(p) ==
    /\ At(p, "commit")
    /\ LET c == cmd[p] IN
       /\ nodes' = nodes \cup {NewNode(c.h, c.guid)}
       /\ ops' = CommitOps(ops, Row(c.h.id, "create", "success"))
       /\ born' = born \cup {[id |-> c.h.id, parent_id |-> c.h.parent_id,
                                path |-> c.h.path, known |-> NodeIds]}
       /\ Proceed(p, c, "commit")
    /\ UNCHANGED <<seq_counter, issued, aborted, phys, oob, machine, ui>>

PatchNothing(id, field, value) == nodes

\* update_node: one field of one row
Patch(id, field, value) ==
    {IF n.id = id THEN [n EXCEPT ![field] = value] ELSE n : n \in nodes}

\* update_node: the re-resolved bcd_guid of a repaired node
Update(p) ==
    /\ At(p, "update")
    /\ LET c == cmd[p] IN
       /\ nodes' = Patch(c.arg, "bcd_guid", c.guid)
       /\ ops' = Append(ops, Row(c.arg, "repair", "success"))
       /\ Proceed(p, c, "update")
    /\ UNCHANGED <<seq_counter, hist, phys, oob, machine, ui>>

\* a mounted node is shown as mounted until it is unmounted
Mark(p) ==
    /\ pc[p] \in {"mark", "unmark"}
    /\ lock = p
    /\ LET c == cmd[p] IN
       /\ nodes' = Patch(c.arg, "status", IF pc[p] = "mark" THEN "mounted" ELSE "normal")
       /\ ops' = Append(ops, Row(c.arg, c.kind, "success"))
       /\ Proceed(p, c, pc[p])
    /\ UNCHANGED <<seq_counter, hist, phys, oob, machine, ui>>

\* ---------------------------------------------------------- cascading delete
\* detach the node's disk if it is attached
DelDetach(p) ==
    /\ At(p, "del_detach")
    /\ attached' = attached \ {DiskPath(cmd[p])}
    /\ Goto(p, "del_bcd")
    /\ UNCHANGED <<store, hist, files, mounts, letters, bcd, guid_counter, lock, cmd, oob, machine, ui>>

\* bcdedit /delete {guid}; an entry that is already gone is only logged
DelBcd(p) ==
    /\ At(p, "del_bcd")
    /\ bcd' = {e \in bcd : e.guid # NodeOf(Head(cmd[p].todo)).bcd_guid}
    /\ Goto(p, "del_file")
    /\ UNCHANGED <<store, hist, files, attached, mounts, letters, guid_counter, lock, cmd, oob, machine, ui>>

\* delete the VHDX file
DelFile(p) ==
    /\ At(p, "del_file")
    /\ files' = files \ FileAt(DiskPath(cmd[p]))
    /\ Goto(p, "del_row")
    /\ UNCHANGED <<store, hist, attached, mounts, letters, bcd, guid_counter, lock, cmd, oob, machine, ui>>

\* delete_node: the row goes and the deletion is written to ops; then the
\* next node of the order, or the end of the command
DelRow(p) ==
    /\ At(p, "del_row")
    /\ LET c == cmd[p]
           id == Head(c.todo)
           rest == [c EXCEPT !.todo = Tail(c.todo)]
       IN /\ nodes' = {n \in nodes : n.id # id}
          /\ ops' = CommitOps(ops, Row(id, "delete", "success"))
          /\ IF Tail(c.todo) = <<>>
             THEN /\ lock' = NULL
                  /\ Goto(p, "idle")
                  /\ cmd' = [cmd EXCEPT ![p] = NoCmd]
             ELSE /\ lock' = lock
                  /\ Goto(p, "del_detach")
                  /\ cmd' = [cmd EXCEPT ![p] = rest]
    /\ UNCHANGED <<seq_counter, hist, phys, oob, machine, ui>>

\* -------------------------------------------------------------- failure
\* a failed step: what the command acquired is released, a creation that has
\* not been committed is aborted, the failure is written to ops (the failing
\* node of a delete is marked), and the error goes back to the caller
Unwind(p) ==
    /\ At(p, "cleanup")
    /\ LET c == cmd[p]
           uncommitted == Creates(c.kind) /\ c.h.id \notin NodeIds
           after == IF uncommitted THEN AbortRows(nodes, c.h) ELSE nodes
       IN /\ mounts' = Released(mounts, c.mnt)
          /\ letters' = Released(letters, c.ltr)
          /\ attached' = Released(attached, c.att)
          /\ nodes' = IF c.kind = "delete_subtree"
                      THEN Patch(Head(c.todo), "status", "error")
                      ELSE after
          /\ aborted' = IF uncommitted THEN aborted \cup {c.h.id} ELSE aborted
          /\ ops' = Append(ops, Row(DiskId(c), c.kind, "failure"))
    /\ cmd' = [cmd EXCEPT ![p] = NoCmd]
    /\ lock' = NULL
    /\ Goto(p, "idle")
    /\ UNCHANGED <<seq_counter, issued, born, files, bcd, guid_counter, oob, machine, ui>>

\* ------------------------------------------------------------- Reconciler
\* the boot entry is looked at before the parent chain
ScanStatusBcdFirst(n) ==
    LET f == FileAt(n.path) IN
    IF f = {} THEN "missing_file"
    ELSE IF n.bcd_guid # NULL /\ ~\E e \in bcd : e.guid = n.bcd_guid
         THEN "missing_bcd"
    ELSE IF n.parent_id # NULL
            /\ (n.parent_id \notin NodeIds
                \/ (CHOOSE x \in f : TRUE).parent # NodeOf(n.parent_id).path)
         THEN "missing_parent"
    ELSE "normal"

\* status by precedence: file, then parent chain, then boot entry
ScanStatus(n) ==
    LET f == FileAt(n.path) IN
    IF f = {} THEN "missing_file"
    ELSE IF n.parent_id # NULL
            /\ (n.parent_id \notin NodeIds
                \/ (CHOOSE x \in f : TRUE).parent # NodeOf(n.parent_id).path)
         THEN "missing_parent"
    ELSE IF n.bcd_guid # NULL /\ ~\E e \in bcd : e.guid = n.bcd_guid
         THEN "missing_bcd"
    ELSE "normal"

\* a node whose file is gone is dropped from the table
RescannedDropMissing(ns) ==
    {[n EXCEPT !.status = ScanStatus(n)] : n \in {m \in ns : FileAt(m.path) # {}}}

\* every node with its status recomputed
Rescanned(ns) == {[n EXCEPT !.status = ScanStatus(n)] : n \in ns}

\* scan_workspace: every node's status is recomputed; nothing else changes
Scan ==
    /\ nodes' = Rescanned(nodes)
    /\ nodes' # nodes
    /\ UNCHANGED <<ops, seq_counter, phys, hist, lock, pc, cmd, oob, machine, ui>>

\* ------------------------------------------------------------ boot switch
SagaLastRestart == "restart"

\* the last step the workflow runs itself; with it done the workflow has
\* returned to the command that called it and the workspace lock is free
SagaLast == "record"

\* the command moves past `step` of the boot switch
BootProceed(p, step) ==
    /\ Goto(p, StepAfter(cmd[p].kind, step))
    /\ lock' = IF step = SagaLast THEN NULL ELSE lock
    /\ cmd' = cmd

\* bcdedit /bootsequence {guid}: needs the node's entry to exist
Arm(p) ==
    /\ At(p, "arm")
    /\ LET n == NodeOf(cmd[p].arg) IN
       /\ n.bcd_guid # NULL
       /\ \E e \in bcd : e.guid = n.bcd_guid
       /\ bootsequence' = n.bcd_guid
    /\ BootProceed(p, "arm")
    /\ UNCHANGED <<store, hist, phys, oob, restarts, ui>>

\* the switch is written to the history before the machine goes down
Record(p) ==
    /\ At(p, "record")
    /\ ops' = CommitOps(ops, Row(cmd[p].arg, cmd[p].kind, "success"))
    /\ BootProceed(p, "record")
    /\ UNCHANGED <<nodes, seq_counter, hist, phys, oob, machine, ui>>

\* shutdown /r /t 0: the machine starts from the armed entry, which is used up;
\* nothing stays attached and no command is left running
Restart(p) ==
    /\ pc[p] = "restart"
    /\ restarts' = restarts + 1
    /\ bootsequence' = NULL
    /\ attached' = {}
    /\ letters' = {}
    /\ lock' = NULL
    /\ pc' = [q \in Procs |-> "idle"]
    /\ cmd' = [q \in Procs |-> NoCmd]
    /\ UNCHANGED <<store, hist, files, mounts, bcd, guid_counter, oob, ui>>

\* shutdown does not go through: the command returns its error, and the entry
\* stays armed
RestartFails(p) ==
    /\ pc[p] = "restart"
    /\ Goto(p, "idle")
    /\ cmd' = [cmd EXCEPT ![p] = NoCmd]
    /\ lock' = IF lock = p THEN NULL ELSE lock
    /\ UNCHANGED <<store, hist, phys, oob, machine, ui>>

\* ------------------------------------------------------------ out of band
\* a node's boot entry is removed with bcdedit behind the tool's back
OobDeleteBcd(budget) ==
    /\ oob < budget
    /\ \E e \in bcd : bcd' = bcd \ {e}
    /\ oob' = oob + 1
    /\ UNCHANGED <<store, hist, files, attached, mounts, letters, guid_counter, lock, pc, cmd, machine, ui>>

\* bcdedit prints an entry's device path in another letter case than the
\* tool wrote it
OobRecase(budget) ==
    /\ oob < budget
    /\ \E e \in bcd :
          /\ Shout(e.path) # e.path
          /\ bcd' = (bcd \ {e}) \cup {[e EXCEPT !.path = Shout(e.path)]}
    /\ oob' = oob + 1
    /\ UNCHANGED <<store, hist, files, attached, mounts, letters, guid_counter, lock, pc, cmd, machine, ui>>

\* a node's VHDX file is removed behind the tool's back
OobDeleteFile(budget) ==
    /\ oob < budget
    /\ \E f \in files : f.path \notin attached /\ files' = files \ {f}
    /\ oob' = oob + 1
    /\ UNCHANGED <<store, hist, attached, mounts, letters, bcd, guid_counter, lock, pc, cmd, machine, ui>>

\* a differencing disk is re-based behind the tool's back: its file no longer
\* names the parent's file
OobBreakChain(budget) ==
    /\ oob < budget
    /\ \E f \in files :
          /\ f.parent # NoPath
          /\ f.path \notin attached
          /\ files' = (files \ {f}) \cup {[f EXCEPT !.parent = NoPath]}
    /\ oob' = oob + 1
    /\ UNCHANGED <<store, hist, attached, mounts, letters, bcd, guid_counter, lock, pc, cmd, machine, ui>>

\* ------------------------------------------------------------------ UI tree
\* the ids of the list, in list order
ListIds(list) == [i \in 1..Len(list) |-> list[i].id]

IdSet(list) == {list[i].id : i \in 1..Len(list)}

\* map.get(id)
Item(list, id) == list[CHOOSE i \in 1..Len(list) : list[i].id = id]

\* parentId && map.has(parentId), with parentId = node.parent_id || ""
HasParent(list, n) == n.parent_id # NULL /\ n.parent_id \in IdSet(list)

\* roots.push(node), in the order of the list
RootsPushed(list) == ListIds(SelectSeq(list, LAMBDA n : ~HasParent(list, n)))

\* map.get(parentId).children.push(node), in the order of the list
ChildrenPushed(list, id) ==
    ListIds(SelectSeq(list, LAMBDA n : HasParent(list, n) /\ n.parent_id = id))

\* new Date(created_at).getTime()
Time(list, id) == Item(list, id).created_at

\* Array.prototype.sort with the created_at comparator: stable, ascending
RECURSIVE SortByCreated(_, _)
SortNot(list, ids) == ids

SortByCreated(list, ids) ==
    IF ids = <<>> THEN <<>>
    ELSE LET x == ids[Len(ids)]
             front == SortByCreated(list, SubSeq(ids, 1, Len(ids) - 1))
             k == Cardinality({i \in 1..Len(front) : Time(list, front[i]) <= Time(list, x)})
         IN SubSeq(front, 1, k) \o <<x>> \o SubSeq(front, k + 1, Len(front))

\* the ids sortRecursively visits: the roots and everything below them
RECURSIVE Below(_, _, _)
Below(list, ids, fuel) ==
    IF fuel = 0 \/ ids = {} THEN ids
    ELSE ids \cup Below(list, {n.id : n \in {list[i] : i \in {j \in 1..Len(list) :
                                   HasParent(list, list[j]) /\ list[j].parent_id \in ids}}},
                        fuel - 1)

Visited(list) == Below(list, {n \in IdSet(list) : ~HasParent(list, Item(list, n))}, Len(list))

\* treeData: the roots array and every node's children array; only the arrays
\* sortRecursively reaches are sorted
TreeData(list) ==
    [roots |-> SortByCreated(list, RootsPushed(list)),
     children |-> [id \in IdSet(list) |->
                      IF id \in Visited(list)
                      THEN SortByCreated(list, ChildrenPushed(list, id))
                      ELSE ChildrenPushed(list, id)]]

\* useMemo(..., [nodes]): the tree is built from the list
Memo ==
    /\ treeData = NoTree
    /\ treeData' = TreeData(uiNodes)
    /\ UNCHANGED <<store, hist, phys, lock, pc, cmd, oob, machine, elevated, settings,
                   admin, uiStatus, workspaceReady, uiNodes, selectedNode, handler,
                   listing, effects, calls, lastCmd, oobAtOpen>>

\* ---------------------------------------------------------- specification
\* a command arrives, takes the lock (or is turned away), fails and unwinds
Command(p, kinds, maxSeq, maxOps, steps) ==
    \/ Invoke(p, maxOps) \/ Begin(p, kinds, maxSeq) \/ StepFails(p, steps) \/ Unwind(p)

\* the steps of the two creation workflows, every tool doing its work at once
Creation(p) ==
    \/ Script(p) \/ Mount(p) \/ Apply(p) \/ Bcdboot(p) \/ Resolve(p)
    \/ Release(p) \/ Commit(p)

Deletion(p) == DelDetach(p) \/ DelBcd(p) \/ DelFile(p) \/ DelRow(p)

Handler(p) ==
    \/ Command(p, Kinds, MaxSeq, MaxOps, ToolSteps) \/ Reject(p)
    \/ Creation(p) \/ ScriptPartial(p) \/ BcdbootFallback(p) \/ BcdbootLetter(p)
    \/ Attach(p) \/ Update(p) \/ Mark(p) \/ Deletion(p)

Next == (\E p \in Procs : Handler(p)) \/ Scan \/ OobDeleteBcd(MaxOob) \/ OobDeleteFile(MaxOob)

Spec == Init /\ [][Next]_vars

\* one handler grows a tree and cuts subtrees out of it; only the per-node
\* steps of the delete fail
TreeKinds == {"create_base_vhd", "create_diff_vhd", "delete_subtree"}

TreeNext ==
    \/ Command(1, TreeKinds, TreeSeq, TreeOps, DeleteSteps)
    \/ Creation(1) \/ Deletion(1)

SpecTree == Init /\ [][TreeNext]_vars

\* one handler creates disks and deletes subtrees whose boot entries may have
\* been removed behind the tool's back
DeleteNext ==
    \/ Command(1, TreeKinds, DelSeq, DelOps, DeleteSteps)
    \/ Creation(1) \/ Deletion(1)
    \/ OobDeleteBcd(DelOob)

SpecDelete == Init /\ [][DeleteNext]_vars

\* node lists as the backend may send them: distinct ids, a parent_id that
\* is absent, names a node of the list or names none, and creation times
ListItems == [id : 1..ListLen, parent_id : 0..(ListLen + 1), created_at : 1..2]

NodeLists ==
    {l \in UNION {[1..k -> ListItems] : k \in 1..ListLen} :
        \A i, j \in 1..Len(l) : i # j => l[i].id # l[j].id}

\* the UI holds a list and has not built its tree yet
InitTreeData == InitBackend /\ elevated = TRUE /\ \E l \in NodeLists : InitUi(l)

TreeDataNext == Memo

SpecTreeData == InitTreeData /\ [][TreeDataNext]_vars

\* boot entries: creating a base, repairing, switching the boot target, and
\* bcdedit used behind the tool's back
BcdKinds == {"create_base_vhd", "repair_bcd", "set_bootsequence_and_reboot"}
BcdSteps == {"resolve", "arm"}

BootSwitch(p) == Arm(p) \/ Record(p) \/ Restart(p) \/ RestartFails(p)

BcdNext ==
    \/ Command(1, BcdKinds, BcdSeq, BcdOps, BcdSteps)
    \/ Creation(1)
    \/ Attach(1)
    \/ Update(1)
    \/ BootSwitch(1)
    \/ OobDeleteBcd(BcdOob)
    \/ OobRecase(BcdOob)

SpecBcd == Init /\ [][BcdNext]_vars

\* one handler creates base disks, mounts them for viewing and unmounts them;
\* attaching, mounting and releasing may fail
MountKinds == {"create_base_vhd", "mount", "unmount"}
MountSteps == {"attach", "mount", "release"}

MountNext ==
    \/ Command(1, MountKinds, MountSeq, MountOps, MountSteps)
    \/ Creation(1)
    \/ Attach(1)
    \/ Mark(1)

SpecMount == Init /\ [][MountNext]_vars

\* one handler creates disks, files and boot entries change behind the tool's
\* back, and the workspace is scanned
ScanKinds == {"create_base_vhd", "create_diff_vhd"}

ScanNext ==
    \/ Invoke(1, ScanOps) \/ Begin(1, ScanKinds, ScanSeq) \/ Creation(1)
    \/ Scan
    \/ OobDeleteBcd(ScanOob) \/ OobDeleteFile(ScanOob) \/ OobBreakChain(ScanOob)

SpecScan == Init /\ [][ScanNext]_vars

\* ----------------------------------------------------------------- the UI
UiSeq == 2
UiClicks == 4
UiOob == 1

backend == <<store, phys, hist, lock, pc, cmd, oob, machine>>

\* list_nodes: the rows of the nodes table as the UI receives them
Listed(ns) ==
    LET ids == SortedIds({n.id : n \in ns}) IN
    [i \in 1..Len(ids) |->
        LET n == CHOOSE m \in ns : m.id = ids[i] IN
        [id |-> n.id, parent_id |-> n.parent_id, status |-> n.status, created_at |-> n.id]]

\* opening a workspace does not look at the disks
OpenScansNot(ns) == ns

\* opening a workspace (at start with saved settings, or by init_root on an
\* existing root) reconciles the stored statuses with the disks
OpenScans(ns) == Rescanned(ns)

\* the effects whose dependencies differ in a render with these values
Stale(ready, list, sel) ==
    (IF ready # workspaceReady \/ list # uiNodes \/ sel # selectedNode
     THEN {"select"} ELSE {})
    \cup (IF ready # workspaceReady THEN {"refresh"} ELSE {})

\* the state setters of one continuation take effect in one render
Render(ready, list, sel) ==
    /\ workspaceReady' = ready
    /\ uiNodes' = list
    /\ selectedNode' = sel
    /\ effects' = effects \cup Stale(ready, list, sel)

RefreshesAlways(ready) == TRUE

\* refreshNodes as created in a render where workspaceReady was `ready`:
\* whether it invokes list_nodes
Refreshes(ready) == ready

SelectionKeep(ready, list, sel) == sel

\* the selection effect: nothing selected without a workspace or nodes, the
\* first node when nothing or a vanished node was selected
Selection(ready, list, sel) ==
    IF ~ready \/ list = <<>> THEN NULL
    ELSE IF sel = NULL THEN list[1].id
    ELSE IF sel \notin IdSet(list) THEN list[1].id
    ELSE sel

\* pending effects run before the next event or continuation
Settled == effects = {}

Quiet == Settled /\ handler = NoHandler

Waiting(step) == Settled /\ handler.step = step

\* a handler called from the current render, awaiting `step`: it closes over
\* this render's workspaceReady and selectedNode
Click(name, step, arg) ==
    [name |-> name, step |-> step, ready |-> workspaceReady, arg |-> arg,
     mark |-> Len(ops)]

\* the selection effect
RunSelect ==
    /\ "select" \in effects
    /\ LET sel == Selection(workspaceReady, uiNodes, selectedNode) IN
       /\ selectedNode' = sel
       /\ effects' = IF sel # selectedNode THEN effects ELSE effects \ {"select"}
    /\ UNCHANGED <<backend, elevated, settings, admin, uiStatus, workspaceReady, uiNodes,
                   handler, listing, calls, lastCmd, oobAtOpen, treeData>>

\* the refresh effect, with the refreshNodes of the current render
RunRefresh ==
    /\ "refresh" \in effects
    /\ effects' = effects \ {"refresh"}
    /\ listing' = (listing \/ (workspaceReady /\ Refreshes(workspaceReady)))
    /\ UNCHANGED <<backend, elevated, settings, admin, uiStatus, workspaceReady, uiNodes,
                   selectedNode, handler, calls, lastCmd, oobAtOpen, treeData>>

\* list_nodes answers a refreshNodes call
ListNodes ==
    /\ Settled
    /\ listing
    /\ listing' = FALSE
    /\ \E ok \in BOOLEAN :
          /\ lastCmd' = [name |-> "list_nodes", ok |-> ok]
          /\ IF ok
             THEN /\ uiNodes' = Listed(nodes)
                  /\ effects' = effects \cup {"select"}
                  /\ uiStatus' = uiStatus
             ELSE /\ uiStatus' = "error"
                  /\ UNCHANGED <<uiNodes, effects>>
    /\ UNCHANGED <<backend, elevated, settings, admin, workspaceReady, selectedNode,
                   handler, calls, oobAtOpen, treeData>>

\* bootstrap: check_admin answers or throws
CheckAdmin ==
    /\ Waiting("check_admin")
    /\ \E ok \in BOOLEAN :
          /\ admin' = IF ok /\ elevated THEN "yes" ELSE "no"
          /\ lastCmd' = [name |-> "check_admin", ok |-> ok]
    /\ handler' = [handler EXCEPT !.step = "get_settings"]
    /\ UNCHANGED <<backend, elevated, settings, uiStatus, workspaceReady, uiNodes,
                   selectedNode, listing, effects, calls, oobAtOpen, treeData>>

\* bootstrap: get_settings answers; saved settings open the workspace
GetSettings ==
    /\ Waiting("get_settings")
    /\ \E ok \in BOOLEAN :
          /\ lastCmd' = [name |-> "get_settings", ok |-> ok]
          /\ IF ok /\ settings
             THEN /\ uiStatus' = "initialized"
                  /\ Render(TRUE, uiNodes, selectedNode)
                  /\ listing' = (listing \/ Refreshes(FALSE))
             ELSE /\ uiStatus' = IF ok THEN uiStatus ELSE "error"
                  /\ Render(IF ok THEN FALSE ELSE workspaceReady, uiNodes, selectedNode)
                  /\ listing' = listing
    /\ handler' = NoHandler
    /\ UNCHANGED <<backend, elevated, settings, admin, calls, oobAtOpen, treeData>>

\* handleOpenExisting, up to its await
HandleOpenExisting ==
    /\ Quiet
    /\ ~workspaceReady
    /\ calls < UiClicks
    /\ calls' = calls + 1
    /\ \E rootPath \in {"", "w"} :
          IF rootPath = ""
          THEN uiStatus' = "error" /\ handler' = handler
          ELSE uiStatus' = uiStatus /\ handler' = Click("open_existing", "init_root", NULL)
    /\ UNCHANGED <<backend, elevated, settings, admin, workspaceReady, uiNodes,
                   selectedNode, listing, effects, lastCmd, oobAtOpen, treeData>>

\* handleCreateWorkspace, up to its first await
HandleCreateWorkspace ==
    /\ Quiet
    /\ ~workspaceReady
    /\ calls < UiClicks
    /\ seq_counter < UiSeq
    /\ calls' = calls + 1
    /\ \E rootPath \in {"", "w"} :
          IF rootPath = ""
          THEN uiStatus' = "error" /\ handler' = handler
          ELSE uiStatus' = uiStatus /\ handler' = Click("create_workspace", "init_root", NULL)
    /\ UNCHANGED <<backend, elevated, settings, admin, workspaceReady, uiNodes,
                   selectedNode, listing, effects, lastCmd, oobAtOpen, treeData>>

\* init_root answers: open-existing is done, create-workspace goes on to
\* create_base_vhd
InitRoot ==
    /\ Waiting("init_root")
    /\ \E ok \in BOOLEAN :
          /\ lastCmd' = [name |-> "init_root", ok |-> ok]
          /\ IF ~ok
             THEN /\ uiStatus' = "error"
                  /\ handler' = NoHandler
                  /\ UNCHANGED <<settings, nodes, oobAtOpen, pc, workspaceReady, uiNodes,
                                 selectedNode, effects, listing>>
             ELSE /\ settings' = TRUE
                  /\ nodes' = OpenScans(nodes)
                  /\ oobAtOpen' = oob
                  /\ IF handler.name = "open_existing"
                     THEN /\ uiStatus' = "initialized"
                          /\ Render(TRUE, uiNodes, selectedNode)
                          /\ listing' = (listing \/ Refreshes(handler.ready))
                          /\ handler' = NoHandler
                          /\ pc' = pc
                     ELSE /\ handler' = [handler EXCEPT !.step = "create_base_vhd",
                                                        !.mark = Len(ops)]
                          /\ Goto(1, "lock")
                          /\ UNCHANGED <<uiStatus, workspaceReady, uiNodes, selectedNode,
                                         effects, listing>>
    /\ UNCHANGED <<ops, seq_counter, phys, hist, lock, cmd, oob, machine, elevated,
                   admin, calls, treeData>>

\* handleCreateDiff, up to its await
HandleCreateDiff ==
    /\ Quiet
    /\ workspaceReady
    /\ calls < UiClicks
    /\ seq_counter < UiSeq
    /\ selectedNode # NULL
    /\ calls' = calls + 1
    /\ handler' = Click("create_diff", "create_diff_vhd", selectedNode)
    /\ Goto(1, "lock")
    /\ UNCHANGED <<store, phys, hist, lock, cmd, oob, machine, elevated, settings, view,
                   listing, effects, lastCmd, oobAtOpen>>

\* handleDelete, up to its await
HandleDelete ==
    /\ Quiet
    /\ workspaceReady
    /\ calls < UiClicks
    /\ selectedNode # NULL
    /\ calls' = calls + 1
    /\ handler' = Click("delete", "delete_subtree", selectedNode)
    /\ Goto(1, "lock")
    /\ UNCHANGED <<store, phys, hist, lock, cmd, oob, machine, elevated, settings, view,
                   listing, effects, lastCmd, oobAtOpen>>

\* the backend starts the workflow the UI asked for
UiBegin ==
    /\ handler.step \in TreeKinds
    /\ \E name \in Slugs : Start(1, handler.step, handler.arg, name, UiSeq)

SucceededAlways == TRUE

\* the workflow wrote its success to the history after it was invoked
Succeeded == Len(ops) > handler.mark /\ ops[Len(ops)].result = "success"

\* the workflow hands its result back: the rest of handleCreateWorkspace,
\* handleCreateDiff or handleDelete
Returned ==
    /\ Settled
    /\ handler.step \in TreeKinds
    /\ pc[1] = "idle"
    /\ LET ok == Succeeded
           opens == ok /\ handler.name = "create_workspace"
       IN /\ lastCmd' = [name |-> handler.step, ok |-> ok]
          /\ uiStatus' = IF ~ok THEN "error"
                         ELSE IF opens THEN "initialized" ELSE uiStatus
          /\ Render(IF opens THEN TRUE ELSE workspaceReady, uiNodes, selectedNode)
          /\ listing' = (listing \/ (ok /\ Refreshes(handler.ready)))
    /\ handler' = NoHandler
    /\ UNCHANGED <<backend, elevated, settings, admin, calls, oobAtOpen, treeData>>

\* handleCheck, up to its await
HandleCheck ==
    /\ Quiet
    /\ workspaceReady
    /\ calls < UiClicks
    /\ calls' = calls + 1
    /\ handler' = Click("check", "scan_workspace", NULL)
    /\ UNCHANGED <<backend, elevated, settings, view, listing, effects, lastCmd, oobAtOpen>>

\* scan_workspace answers with the reconciled nodes
ScanWorkspace ==
    /\ Waiting("scan_workspace")
    /\ \E ok \in BOOLEAN :
          /\ lastCmd' = [name |-> "scan_workspace", ok |-> ok]
          /\ IF ok
             THEN /\ nodes' = Rescanned(nodes)
                  /\ uiNodes' = Listed(nodes')
                  /\ effects' = effects \cup {"select"}
                  /\ uiStatus' = uiStatus
             ELSE /\ uiStatus' = "error"
                  /\ UNCHANGED <<nodes, uiNodes, effects>>
    /\ handler' = NoHandler
    /\ UNCHANGED <<ops, seq_counter, phys, hist, lock, pc, cmd, oob, machine, elevated,
                   settings, admin, workspaceReady, selectedNode, listing, calls,
                   oobAtOpen, treeData>>

\* the refresh button calls the refreshNodes of the current render
RefreshButton ==
    /\ Settled
    /\ workspaceReady
    /\ ~listing
    /\ calls < UiClicks
    /\ calls' = calls + 1
    /\ listing' = Refreshes(workspaceReady)
    /\ UNCHANGED <<backend, elevated, settings, view, handler, effects, lastCmd, oobAtOpen>>

\* handleCloseWorkspace; the button is disabled while any command runs
HandleCloseWorkspace ==
    /\ Quiet
    /\ ~listing
    /\ workspaceReady
    /\ calls < UiClicks
    /\ calls' = calls + 1
    /\ Render(FALSE, <<>>, NULL)
    /\ uiStatus' = "idle"
    /\ UNCHANGED <<backend, elevated, settings, admin, handler, listing, lastCmd,
                   oobAtOpen, treeData>>

\* a node of the tree is clicked
Select ==
    /\ Settled
    /\ workspaceReady
    /\ \E id \in IdSet(uiNodes) :
          /\ id # selectedNode
          /\ Render(workspaceReady, uiNodes, id)
    /\ UNCHANGED <<backend, elevated, settings, admin, uiStatus, handler, listing, calls,
                   lastCmd, oobAtOpen, treeData>>

\* the application is closed and started again: the UI state starts over, the
\* workspace on disk stays, and a saved workspace is opened
Relaunch ==
    /\ Quiet
    /\ ~listing
    /\ calls < UiClicks
    /\ calls' = calls + 1
    /\ nodes' = IF settings THEN OpenScans(nodes) ELSE nodes
    /\ oobAtOpen' = oob
    /\ admin' = "unknown"
    /\ uiStatus' = "idle"
    /\ workspaceReady' = FALSE
    /\ uiNodes' = <<>>
    /\ selectedNode' = NULL
    /\ handler' = Bootstrap
    /\ listing' = FALSE
    /\ effects' = {"select", "refresh"}
    /\ lastCmd' = NoUiCmd
    /\ UNCHANGED <<ops, seq_counter, phys, hist, lock, pc, cmd, oob, machine, elevated,
                   settings, treeData>>

\* the steps that fail under the UI: a creation's script, a delete's steps
UiSteps == DeleteSteps \cup {"script"}

UiNext ==
    \/ RunSelect \/ RunRefresh \/ ListNodes
    \/ CheckAdmin \/ GetSettings
    \/ HandleOpenExisting \/ HandleCreateWorkspace \/ InitRoot
    \/ HandleCreateDiff \/ HandleDelete \/ UiBegin \/ Returned
    \/ HandleCheck \/ ScanWorkspace \/ RefreshButton \/ HandleCloseWorkspace
    \/ Select \/ Relaunch
    \/ StepFails(1, UiSteps) \/ Unwind(1) \/ Creation(1) \/ Deletion(1)
    \/ OobDeleteFile(UiOob)

\* the application has just started, with or without administrator rights
InitUiSpec == InitBackend /\ elevated \in BOOLEAN /\ InitUi(<<>>)

\* the UI driving one backend handler
SpecUi == InitUiSpec /\ [][UiNext]_vars

\* React runs the effects of a render; a command that was invoked answers
SpecUiFair == SpecUi /\ WF_vars(RunSelect) /\ WF_vars(RunRefresh)

\* ------------------------------------------------------------------ claims
\* handler p is inside a workflow
Working(p) == pc[p] \notin {"idle", "lock"}

\* in this step handler p hands control back to its caller
Returns(p) == Working(p) /\ pc'[p] = "idle"

\* after this step nothing that handler p acquired is still held
HoldsNothing(p) ==
    /\ mounts' \cap cmd[p].mnt = {}
    /\ letters' \cap cmd[p].ltr = {}
    /\ attached' \cap cmd[p].att = {}

LastRow == ops[Len(ops)]

\* C1 (as stated): whenever an operation hands control back, on success or on
\* an error, every mount point and drive letter it acquired is released and
\* the disk it attached is detached.
C1_ReleasedAtEveryReturn ==
    [][\A p \in Procs : Returns(p) => HoldsNothing(p)]_vars

\* C1 (amended): whenever an operation other than a successful mount hands
\* control back, on success or on an error at any step, every mount point and
\* drive letter it acquired is released and the disk it attached is detached;
\* a successful mount returns with its disk attached and its mount point kept.
C1_ReleasedUnlessMounted ==
    [][\A p \in Procs :
         (Returns(p) /\ ~(cmd[p].kind = "mount" /\ pc[p] = "mark")) => HoldsNothing(p)]_vars

\* a creation failed after its script had attached the new disk, and control
\* is back with nothing attached, mounted or lettered
C1_FailedCreationReleased ==
    /\ lock = NULL
    /\ ops # <<>>
    /\ LastRow.result = "failure"
    /\ Creates(LastRow.action)
    /\ \E f \in files, name \in Slugs :
          f.path = VhdxPath(Dir(LastRow.action), LastRow.node_id, name)
    /\ attached = {} /\ mounts = {} /\ letters = {}

\* C2 (as stated): when an init-base or create-diff workflow fails at a
\* physical step, the persisted nodes after the failure are those before the
\* workflow started.
C2_FailedCreationLeavesNoNode ==
    [][\A p \in Procs :
         (pc[p] = "cleanup" /\ Creates(cmd[p].kind) /\ Returns(p))
             => {n.id : n \in nodes'} = {n.id : n \in cmd[p].pre}]_vars

Committed == {b.id : b \in born}

\* C3: a reserved node is not in the nodes table before commit_node, every
\* node in the table has its create row in ops (and every create row its
\* commit), and no aborted reservation is ever in the table.
C3_VisibleOnlyCommitted ==
    /\ NodeIds \subseteq Committed
    /\ NodeIds \cap aborted = {}
    /\ \A n \in nodes : \E i \in 1..Len(ops) : ops[i] = Row(n.id, "create", "success")
    /\ \A i \in 1..Len(ops) :
          (ops[i].action = "create" /\ ops[i].result = "success")
              => ops[i].node_id \in Committed

\* a draft is reserved and not yet committed while a committed node is visible
\* and an earlier reservation was aborted
C3_DraftBesideNodes ==
    \E p \in Procs :
        /\ Working(p) /\ Creates(cmd[p].kind)
        /\ cmd[p].h.id \notin NodeIds
        /\ nodes # {}
        /\ aborted # {}

C5_PathUnique ==
    \A n, m \in nodes : n.path = m.path => n.id = m.id

\* two nodes of the same name in the same directory, after a failed attempt
C5_SameNameTwice ==
    /\ aborted # {}
    /\ \E n, m \in nodes :
          /\ n.id # m.id /\ n.name = m.name
          /\ (n.parent_id = NULL) = (m.parent_id = NULL)

RECURSIVE Up(_, _, _)
\* the ids met following parent_id links from id, at most fuel links
Up(ns, id, fuel) ==
    IF fuel = 0 \/ ~\E n \in ns : n.id = id THEN {}
    ELSE LET par == (CHOOSE n \in ns : n.id = id).parent_id
         IN IF par = NULL THEN {} ELSE {par} \cup Up(ns, par, fuel - 1)

\* C6: every non-absent parent_id is the one the node was created with and
\* names a node persisted at that time, and parent links never lead back.
C6_Forest ==
    \A n \in nodes :
        /\ n.parent_id # NULL =>
              \E b \in born : /\ b.id = n.id
                              /\ b.parent_id = n.parent_id
                              /\ n.parent_id \in b.known
        /\ n.id \notin Up(nodes, n.id, Cardinality(nodes))

\* a chain of three: a node whose parent has a parent
C6_Chain ==
    \E n, m \in nodes : n.parent_id = m.id /\ m.parent_id # NULL

\* ------------------------------------------------- claims: cascading delete
IsDeleteRow(r) == r.action = "delete" /\ r.result = "success"

Deleted == {ops[i].node_id : i \in {k \in 1..Len(ops) : IsDeleteRow(ops[k])}}

\* the ids that were ever below id, by the parent links recorded at commit
Under(hs, id) == {h.id : h \in {g \in hs : id \in Up(hs, g.id, Cardinality(hs))}}

\* C7: for every removed node, the rows and files of all its descendants were
\* removed before its own row, and ops lists every descendant's deletion
\* before its ancestor's.
C7_DescendantsFirst ==
    /\ \A i, j \in 1..Len(ops) :
          (IsDeleteRow(ops[i]) /\ IsDeleteRow(ops[j])
           /\ ops[i].node_id \in Under(born, ops[j].node_id)) => i < j
    /\ \A b \in born : b.id \in Deleted =>
          \A d \in born : d.id \in Under(born, b.id) =>
              (d.id \in Deleted /\ d.id \notin NodeIds /\ FileAt(d.path) = {})

\* a node, its child and its grandchild were removed, the grandchild first
C7_ThreeLevelsRemoved ==
    \E i, j, k \in 1..Len(ops) :
        /\ i < j /\ j < k
        /\ IsDeleteRow(ops[i]) /\ IsDeleteRow(ops[j]) /\ IsDeleteRow(ops[k])
        /\ \E b, d \in born : /\ b.id = ops[i].node_id /\ b.parent_id = ops[j].node_id
                              /\ d.id = ops[j].node_id /\ d.parent_id = ops[k].node_id

\* in this step handler p gives up a cascading delete at a failed node
DeleteFails(p) == pc[p] = "cleanup" /\ cmd[p].kind = "delete_subtree" /\ Returns(p)

\* the nodes the delete of handler p has removed once this step is taken
Removed(p) == {n.id : n \in cmd[p].pre} \ {n.id : n \in nodes'}

PreSubtree(p) == {cmd[p].arg} \cup Under(cmd[p].pre, cmd[p].arg)

LevelOf(p, id) == Cardinality(Up(cmd[p].pre, id, Cardinality(cmd[p].pre)))

\* what holds of any failed cascading delete, whatever the order was
StopsClean(p) ==
    /\ Removed(p) \subseteq PreSubtree(p)
    /\ Removed(p) # PreSubtree(p)
    /\ Head(cmd[p].todo) \in {n.id : n \in nodes'}
    /\ {n.id : n \in nodes'} \cap Deleted' = {}
    /\ \A n \in nodes' : n.parent_id \notin Removed(p)
    /\ \A n \in cmd[p].pre : n.id \notin PreSubtree(p) => n \in nodes'

RECURSIVE PostOrderOpen(_, _, _)
\* R can be what a post-order walk below the unremoved node v has removed:
\* at most one child's subtree is begun and not finished, and so on down
PostOrderOpen(ns, v, R) ==
    LET begun == {c \in Children(ns, v) :
                    /\ Subtree(ns, c) \cap R # {}
                    /\ ~(Subtree(ns, c) \subseteq R)}
    IN /\ Cardinality(begun) <= 1
       /\ \A c \in begun : c \notin R /\ PostOrderOpen(ns, c, R)

\* C8 (as stated): when a per-node step fails, the removed nodes are a strict
\* prefix of the post-order sequence, the failing node and the nodes not yet
\* processed are still in the store, none is re-created and no survivor's
\* parent_id names a removed node.
C8_StrictPostOrderPrefix ==
    [][\A p \in Procs : DeleteFails(p) =>
          /\ StopsClean(p)
          /\ PostOrderOpen(cmd[p].pre, cmd[p].arg, Removed(p))]_vars

\* C8 (amended): when a per-node step fails, the removed nodes are a strict
\* prefix of the deletion order, which takes the subtree level by level from
\* the deepest level up; the failing node and the nodes not yet processed are
\* still in the store, none is re-created and no survivor's parent_id names a
\* removed node.
C8_StrictLevelPrefix ==
    [][\A p \in Procs : DeleteFails(p) =>
          /\ StopsClean(p)
          /\ \E k \in 0..(Cardinality(PreSubtree(p)) - 1) :
                Removed(p) = {DeleteOrder(cmd[p].pre, cmd[p].arg)[i] : i \in 1..k}
          /\ \A r \in Removed(p) : \A s \in PreSubtree(p) \ Removed(p) :
                LevelOf(p, r) >= LevelOf(p, s)]_vars

\* a cascading delete removed a node and failed at the next, which is marked
C8_FailedMidTree ==
    /\ lock = NULL
    /\ Len(ops) >= 2
    /\ LastRow = Row(LastRow.node_id, "delete_subtree", "failure")
    /\ IsDeleteRow(ops[Len(ops) - 1])
    /\ \E n \in nodes : n.id = LastRow.node_id /\ n.status = "error"

\* C9: a fully successful cascading delete removes exactly the target and its
\* descendants, with their files and boot entries, and leaves every other
\* node, file and row as it was.
C9_RemovesExactlySubtree ==
    [][\A p \in Procs : (pc[p] = "del_row" /\ Returns(p)) =>
          /\ nodes' = {n \in cmd[p].pre : n.id \notin PreSubtree(p)}
          /\ \A n \in cmd[p].pre : n.id \in PreSubtree(p) =>
                /\ FileAt(n.path)' = {}
                /\ \A e \in bcd' : e.guid # n.bcd_guid
          /\ \A n \in nodes' : FileAt(n.path)' # {}]_vars

\* a delete of a node with a child has returned, and its parent and a sibling
\* are still in the store
C9_SubtreeGoneRestKept ==
    /\ lock = NULL
    /\ Len(ops) >= 2
    /\ IsDeleteRow(LastRow) /\ IsDeleteRow(ops[Len(ops) - 1])
    /\ \E b \in born : /\ b.id = LastRow.node_id
                       /\ b.parent_id \in NodeIds
                       /\ \E n \in nodes : n.parent_id = b.parent_id

\* ---------------------------------------------------- claims: the lock
\* C10: at most one workflow is in flight, and it holds the workspace lock.
C10_OneWorkflowInFlight ==
    \A p, q \in Procs : (Working(p) /\ Working(q)) => (p = q /\ lock = p)

\* a second command is waiting at the lock while a workflow is at a tool step
C10_SecondRequestHeldOff ==
    \E p, q \in Procs : p # q /\ pc[p] \in ToolSteps /\ pc[q] = "lock"

\* ------------------------------------------------ claims: operation history
\* the fields of a node other than its status
Fields(n) == [id |-> n.id, parent_id |-> n.parent_id, name |-> n.name,
              path |-> n.path, bcd_guid |-> n.bcd_guid]

\* this step is a Node Store mutation: a row comes or goes, or a field other
\* than status changes
Mutates == {Fields(n) : n \in nodes'} # {Fields(n) : n \in nodes}

\* C11: a commit_node, delete_node or update_node changes the nodes table and
\* appends exactly one Operation row in the same step; a create, delete or
\* repair row is never appended without its node change.
C11_OneRowPerMutation ==
    [][/\ Mutates => /\ Len(ops') = Len(ops) + 1
                     /\ ops'[Len(ops')].result = "success"
                     /\ ops'[Len(ops')].action \in {"create", "delete", "repair"}
       /\ \A i \in (Len(ops) + 1)..Len(ops') :
             /\ ops'[i] = Row(ops'[i].node_id, "create", "success")
                   => (ops'[i].node_id \in {n.id : n \in nodes'} \ NodeIds
                       /\ Len(ops') = Len(ops) + 1)
             /\ ops'[i] = Row(ops'[i].node_id, "delete", "success")
                   => (ops'[i].node_id \in NodeIds \ {n.id : n \in nodes'}
                       /\ Len(ops') = Len(ops) + 1)
             /\ ops'[i] = Row(ops'[i].node_id, "repair", "success")
                   => (\E p \in Procs : pc[p] = "update" /\ cmd[p].arg = ops'[i].node_id
                                        /\ nodes' = Patch(cmd[p].arg, "bcd_guid", cmd[p].guid)
                       /\ Len(ops') = Len(ops) + 1)]_vars

\* a node was created, repaired to a new boot entry and deleted
C11_CreatedRepairedDeleted ==
    \E i, j, k \in 1..Len(ops) :
        /\ i < j /\ j < k
        /\ ops[i] = Row(ops[i].node_id, "create", "success")
        /\ ops[j] = Row(ops[i].node_id, "repair", "success")
        /\ ops[k] = Row(ops[i].node_id, "delete", "success")

\* C12: the history only grows at its end: every row stays where it was
\* inserted, unchanged, whatever happens to the node it names.
C12_AppendOnly ==
    [][/\ Len(ops') >= Len(ops)
       /\ SubSeq(ops', 1, Len(ops)) = ops]_vars

\* a node was deleted and the row of its creation is still in the history
C12_RowOutlivesNode ==
    \E i, j \in 1..Len(ops) :
        /\ i < j
        /\ ops[i] = Row(ops[i].node_id, "create", "success")
        /\ ops[j] = Row(ops[i].node_id, "delete", "success")
        /\ ops[i].node_id \notin NodeIds

\* --------------------------------------------------- claims: the Reconciler
\* this step is a scan: statuses change and nothing is invoked or recorded
ScanStep == nodes' # nodes /\ pc' = pc /\ ops' = ops

FileGone(n) == ~\E f \in files : f.path = n.path

ChainBroken(n) ==
    /\ n.parent_id # NULL
    /\ ~\E f \in files, q \in nodes :
          f.path = n.path /\ q.id = n.parent_id /\ f.parent = q.path

EntryGone(n) == n.bcd_guid # NULL /\ n.bcd_guid \notin {e.guid : e \in bcd}

\* C13: a scan gives every node missing_file if its file does not exist, else
\* missing_parent if it has a parent_id and its file does not name the parent's
\* recorded path, else missing_bcd if its bcd_guid is set and names no boot
\* entry, else normal.
C13_StatusByPrecedence ==
    [][ScanStep =>
          \A n \in nodes' :
              n.status = IF FileGone(n) THEN "missing_file"
                         ELSE IF ChainBroken(n) THEN "missing_parent"
                         ELSE IF EntryGone(n) THEN "missing_bcd"
                         ELSE "normal"]_vars

\* a node with a broken chain and no boot entry is reported missing_parent
C13_TwoConditionsAtOnce ==
    \E n \in nodes :
        /\ ~FileGone(n) /\ ChainBroken(n) /\ EntryGone(n)
        /\ n.status = "missing_parent"

\* C14: a scan keeps the set of nodes and every id, name, path, parent_id and
\* bcd_guid, changes no file, attachment, mount point or boot entry and writes
\* no row; a node whose file is gone stays, as missing_file.
C14_ScanChangesStatusOnly ==
    [][ScanStep =>
          /\ {Fields(n) : n \in nodes'} = {Fields(n) : n \in nodes}
          /\ Cardinality(nodes') = Cardinality(nodes)
          /\ UNCHANGED <<seq_counter, files, attached, mounts, letters, bcd, guid_counter>>
          /\ \A n \in nodes : FileGone(n) =>
                \E m \in nodes' : m.id = n.id /\ m.status = "missing_file"]_vars

\* a node whose file was removed is still in the store, as missing_file
C14_MissingFileKept ==
    \E n \in nodes : FileGone(n) /\ n.status = "missing_file"

\* two paths name the same file: equal element by element, letter case aside
SameFile(a, b) ==
    /\ Len(a) = Len(b)
    /\ \A i \in 1..Len(a) : a[i] = b[i] \/ UpperOf(a[i]) = UpperOf(b[i])

\* the boot entries that reference the disk of command c
Hits(c) == {e \in bcd : SameFile(e.path, DiskPath(c))}

Switching(p) == cmd[p].kind = "set_bootsequence_and_reboot"

C17_RestartOnlyArmed ==
    [][/\ restarts' # restarts =>
             \E p \in Procs :
                 /\ Switching(p) /\ pc[p] = "restart"
                 /\ NodeOf(cmd[p].arg).bcd_guid # NULL
                 /\ bootsequence = NodeOf(cmd[p].arg).bcd_guid
                 /\ LastRow = Row(cmd[p].arg, cmd[p].kind, "success")
       /\ \A p \in Procs :
             (Switching(p) /\ pc[p] = "arm" /\ pc'[p] # "arm") =>
                 IF pc'[p] = "record"
                 THEN /\ NodeOf(cmd[p].arg).bcd_guid # NULL
                      /\ bootsequence' = NodeOf(cmd[p].arg).bcd_guid
                 ELSE /\ pc'[p] = "cleanup"
                      /\ UNCHANGED machine
       /\ \A p \in Procs :
             (Switching(p) /\ pc[p] = "cleanup") => restarts' = restarts]_vars

\* the rows of successful boot switches
Switched == {i \in 1..Len(ops) : /\ ops[i].action = "set_bootsequence_and_reboot"
                                 /\ ops[i].result = "success"}

\* a node was armed with another node's entry still armed from a switch whose
\* restart did not go through, and the machine then restarted
C17_RearmedThenRestarted ==
    /\ restarts = 1
    /\ \E i, j \in Switched : ops[i].node_id # ops[j].node_id

\* C18: a node committed by create-base has status normal, boot_files_ready
\* true and a bcd_guid that is not null; a create-base whose resolution finds
\* no entry for the new disk commits no node.
C18_BaseCommittedBootable ==
    [][\A n \in nodes' :
          (n.id \notin NodeIds /\ n.parent_id = NULL) =>
              /\ n.status = "normal"
              /\ n.boot_files_ready = TRUE
              /\ n.bcd_guid # NULL]_vars

\* a create-base is about to resolve the entry of its new disk and there is
\* none
C18_BaseWithoutEntry ==
    \E p \in Procs :
        /\ cmd[p].kind = "create_base_vhd"
        /\ pc[p] = "resolve"
        /\ Hits(cmd[p]) = {}

\* C19: a create-diff for parent p that commits adds exactly one node, with
\* parent_id p, whose file was created with the path recorded for p as its
\* parent; a create-diff is in flight only for a persisted parent, so one for
\* an id that is not a persisted node commits nothing.
C19_DiffUnderParent ==
    [][/\ \A n \in nodes' :
             (n.id \notin NodeIds /\ n.parent_id # NULL) =>
                 /\ nodes' = nodes \cup {n}
                 /\ \E p \in Procs : /\ cmd[p].kind = "create_diff_vhd"
                                     /\ pc[p] = "commit"
                                     /\ cmd[p].arg = n.parent_id
                 /\ \E m \in nodes, f \in files' :
                       /\ m.id = n.parent_id
                       /\ f.path = n.path
                       /\ f.parent = m.path
       /\ \A p \in Procs :
             (Working(p) /\ cmd[p].kind = "create_diff_vhd") => cmd[p].arg \in NodeIds]_vars

\* a differencing node was just committed over its parent's file
C19_ChildJustCommitted ==
    /\ ops # <<>>
    /\ \E n, m \in nodes, f \in files :
          /\ n.parent_id = m.id
          /\ f.path = n.path /\ f.parent = m.path
          /\ LastRow = Row(n.id, "create", "success")

\* the rows of ops that are successful mounts or unmounts of node id
Turns(id) == {i \in 1..Len(ops) : /\ ops[i].node_id = id
                                  /\ ops[i].action \in {"mount", "unmount"}
                                  /\ ops[i].result = "success"}

\* the nodes whose last successful mount has not been followed by an unmount
MountedNow ==
    {n.id : n \in {m \in nodes : /\ Turns(m.id) # {}
                                  /\ \E i \in Turns(m.id) :
                                        /\ \A j \in Turns(m.id) : j <= i
                                        /\ ops[i].action = "mount"}}

\* C20: with no command running, the mount-point directories and the attached
\* disks are exactly those of the nodes mounted and not yet unmounted: a node
\* that was mounted and then unmounted, however often, has no mount-point
\* directory and its disk is not attached.
C20_UnmountUndoesMount ==
    lock = NULL =>
        /\ mounts = {SysMount(id) : id \in MountedNow}
        /\ attached = {NodeOf(id).path : id \in MountedNow}

\* a node was mounted and unmounted twice and nothing is left behind
C20_TwoPairsNothingLeft ==
    /\ lock = NULL
    /\ mounts = {} /\ attached = {}
    /\ \E n \in nodes :
          \E i, j, k, l \in Turns(n.id) :
              /\ i < j /\ j < k /\ k < l
              /\ ops[i].action = "mount" /\ ops[j].action = "unmount"
              /\ ops[k].action = "mount" /\ ops[l].action = "unmount"

\* the row of node id in the set of rows ns
RowOf(ns, id) == CHOOSE n \in ns : n.id = id

\* C21: a repair that resolves the boot entry when the entry of the node is
\* gone resolves an identifier no node had when the repair began (or none, if
\* the new entry too was removed), and the node is left with exactly the
\* identifier resolved; the node's id, path and parent_id and all other nodes
\* stay as they were, and the repair returns with the disk detached and its
\* mount points removed.
C21_RepairGivesNewEntry ==
    [][\A p \in Procs :
          cmd[p].kind = "repair_bcd" =>
              /\ (pc[p] = "resolve" /\ pc'[p] = "update"
                     /\ EntryGone(RowOf(cmd[p].pre, cmd[p].arg))) =>
                    \/ cmd'[p].guid = NULL
                    \/ /\ cmd'[p].guid \notin {n.bcd_guid : n \in cmd[p].pre}
                       /\ \E e \in bcd : e.guid = cmd'[p].guid
              /\ (pc[p] = "update" /\ pc'[p] = "release") =>
                    LET old == RowOf(cmd[p].pre, cmd[p].arg)
                        new == RowOf(nodes', cmd[p].arg)
                    IN /\ new = [old EXCEPT !.bcd_guid = cmd[p].guid]
                       /\ {n \in nodes' : n.id # cmd[p].arg}
                             = {n \in cmd[p].pre : n.id # cmd[p].arg}
              /\ (pc[p] = "release" /\ pc'[p] = "idle") =>
                    /\ DiskPath(cmd[p]) \notin attached'
                    /\ mounts' \cap MountsOf(cmd[p]) = {}
                    /\ letters' = {}]_vars

\* a node whose entry was removed behind the tool's back has been repaired: it
\* carries the identifier of an existing entry and nothing is left attached
C21_RepairedAfterRemoval ==
    /\ ops # <<>>
    /\ oob >= 1
    /\ lock = NULL /\ attached = {} /\ mounts = {}
    /\ \E n \in nodes :
          /\ LastRow = Row(n.id, "repair", "success")
          /\ n.bcd_guid = guid_counter /\ guid_counter >= 2
          /\ bcd = {e \in bcd : e.guid = n.bcd_guid /\ SameFile(e.path, n.path)}
          /\ bcd # {}

\* C24: in both creation workflows commit_node is the last step: when the node
\* is committed its boot entry has been resolved, its disk is detached, none of
\* the workflow's mount points is left, and the workflow returns.
C24_CommitIsLastStep ==
    [][\A p \in Procs :
          (Creates(cmd[p].kind) /\ pc[p] = "commit" /\ cmd[p].h.id \in {n.id : n \in nodes'}) =>
              /\ cmd[p].guid # NULL
              /\ cmd[p].h.path \notin attached
              /\ mounts \cap cmd[p].mnt = {}
              /\ pc'[p] = "idle"]_vars

\* handler p runs a cascading delete
Deleting(p) == cmd[p].kind = "delete_subtree"

\* C25: for each node of a cascading delete the steps run in the order detach,
\* delete boot entry, delete file, delete row; when the row is removed the file
\* is gone, the disk is not attached and no boot entry carries the node's
\* bcd_guid; deleting the boot entry goes on to the file whether or not the
\* entry was there; a step that fails ends the delete with no further node,
\* file or entry removed.
C25_DetachEntryFileRow ==
    [][\A p \in Procs :
          Deleting(p) =>
              /\ pc[p] = "del_detach" => pc'[p] \in {"del_detach", "del_bcd", "cleanup"}
              /\ pc[p] = "del_bcd" => pc'[p] \in {"del_bcd", "del_file", "cleanup"}
              /\ pc[p] = "del_file" => pc'[p] \in {"del_file", "del_row", "cleanup"}
              /\ (pc[p] = "del_bcd" /\ pc'[p] = "del_file") =>
                    /\ ~\E e \in bcd' : e.guid = NodeOf(Head(cmd[p].todo)).bcd_guid
                    /\ UNCHANGED <<nodes, files>>
              /\ \A n \in nodes :
                    n.id \notin {m.id : m \in nodes'} =>
                        /\ pc[p] = "del_row"
                        /\ n.id = Head(cmd[p].todo)
                        /\ FileGone(n)
                        /\ n.path \notin attached
                        /\ ~\E e \in bcd : e.guid = n.bcd_guid
              /\ (pc[p] = "cleanup" /\ pc'[p] # "cleanup") =>
                    /\ {m.id : m \in nodes'} = NodeIds
                    /\ UNCHANGED <<files, bcd>>
                    /\ pc'[p] = "idle"]_vars

\* the only boot entry ever written was removed behind the tool's back and its
\* node has been deleted all the same
C25_DeletedWithoutEntry ==
    /\ ops # <<>>
    /\ oob >= 1 /\ guid_counter = 1
    /\ IsDeleteRow(LastRow)
    /\ nodes = {} /\ files = {}

\* the ids met walking the built tree from the array ids down, in order
RECURSIVE Walk(_, _, _)
Walk(t, ids, fuel) ==
    IF ids = <<>> \/ fuel = 0 THEN <<>>
    ELSE <<Head(ids)>> \o Walk(t, t.children[Head(ids)], fuel - 1)
                      \o Walk(t, Tail(ids), fuel)

\* the parent links of the list never lead back
RECURSIVE Chain(_, _, _)
Chain(list, id, fuel) ==
    IF fuel = 0 \/ ~HasParent(list, Item(list, id)) THEN {}
    ELSE {Item(list, id).parent_id} \cup Chain(list, Item(list, id).parent_id, fuel - 1)

Acyclic(list) == \A id \in IdSet(list) : id \notin Chain(list, id, Len(list))

Ascending(list, ids) ==
    \A i, j \in 1..Len(ids) : i < j => Time(list, ids[i]) <= Time(list, ids[j])

Built == treeData # NoTree

\* C26: in the tree built from a list with distinct ids, a node is a root
\* exactly when its parent_id is absent or names no node of the list, and is
\* otherwise in the children of the node its parent_id names, and of no other;
\* when the parent links are acyclic every node of the list is met exactly
\* once walking the tree; the roots and the children of every node of the tree
\* are in ascending order of created_at.
C26_TreeOfList ==
    Built =>
        LET t == treeData
            list == uiNodes
            walk == Walk(t, t.roots, Len(list) + 1)
        IN /\ \A i \in 1..Len(list) :
                 LET n == list[i]
                     isRoot == n.parent_id = NULL \/ n.parent_id \notin IdSet(list)
                     at == {k \in 1..Len(t.roots) : t.roots[k] = n.id}
                 IN /\ Cardinality(at) = (IF isRoot THEN 1 ELSE 0)
                    /\ \A q \in IdSet(list) :
                          Cardinality({k \in 1..Len(t.children[q]) : t.children[q][k] = n.id})
                              = (IF ~isRoot /\ n.parent_id = q THEN 1 ELSE 0)
           /\ Acyclic(list) =>
                 \A id \in IdSet(list) :
                     Cardinality({k \in 1..Len(walk) : walk[k] = id}) = 1
           /\ Ascending(list, t.roots)
           /\ \A k \in 1..Len(walk) : Ascending(list, t.children[walk[k]])

\* a tree was built whose roots had to be put in order: one root with a
\* parent_id that names no node of the list, an older root listed after it,
\* and a child below
C26_RootsSortedChildBelow ==
    /\ Built
    /\ Acyclic(uiNodes)
    /\ treeData.roots # RootsPushed(uiNodes)
    /\ \E i \in 1..Len(uiNodes) : uiNodes[i].parent_id = ListLen + 1
    /\ \E id \in IdSet(uiNodes) : treeData.children[id] # <<>>

\* ------------------------------------------------------- claims: the UI
\* the selection is what the selection effect leaves for this list
Chosen ==
    IF ~workspaceReady \/ uiNodes = <<>> THEN selectedNode = NULL
    ELSE selectedNode \in IdSet(uiNodes)

\* a run of the selection effect
SelectRuns ==
    /\ "select" \in effects
    /\ "select" \notin effects' \/ selectedNode' # selectedNode
    /\ UNCHANGED <<workspaceReady, uiNodes, handler, listing, calls>>

\* C27: once the selection effect has run, nothing is selected when the
\* workspace is not ready or the list is empty, and otherwise a node of the
\* list is; a run of the effect keeps a selected id that is in the list and
\* replaces one that is not (or none) by the id of the first node.
C27_SelectionFollowsList ==
    [][/\ "select" \notin effects' => Chosen'
       /\ (SelectRuns /\ workspaceReady /\ uiNodes # <<>>) =>
             selectedNode' = IF selectedNode \in IdSet(uiNodes)
                             THEN selectedNode ELSE uiNodes[1].id]_vars

\* the selected node was deleted, the list was reloaded without it, and the
\* effect has moved the selection to the first node that is left
C27_SelectionMovedAfterDelete ==
    /\ effects = {}
    /\ workspaceReady
    /\ uiNodes # <<>>
    /\ selectedNode = uiNodes[1].id
    /\ \E r \in 1..Len(ops) : ops[r].action = "delete" /\ ops[r].node_id # selectedNode
    /\ lastCmd = [name |-> "list_nodes", ok |-> TRUE]
    /\ Len(uiNodes) < seq_counter

\* handleCreateWorkspace is waiting for `step`
Creating(step) == handler.name = "create_workspace" /\ handler.step = step

\* the base disk this call of create_base_vhd made is in the tree
BaseMade ==
    /\ Len(ops) > handler.mark
    /\ ops[Len(ops)] = Row(seq_counter, "create", "success")
    /\ \E n \in nodes : n.id = seq_counter /\ n.parent_id = NULL

\* C28: in create-workspace, create_base_vhd is invoked only in the step in
\* which init_root succeeded; a failed init_root ends the handler without
\* invoking it; the workspace becomes ready (status initialized) only when
\* create_base_vhd has succeeded after that; and when create_base_vhd fails
\* the UI stays not ready although init_root has saved the settings.
C28_BaseAfterInitReadyAfterBoth ==
    [][/\ (handler'.step = "create_base_vhd" /\ handler.step # "create_base_vhd") =>
             /\ Creating("init_root")
             /\ lastCmd' = [name |-> "init_root", ok |-> TRUE]
             /\ settings'
             /\ pc[1] = "idle" /\ pc'[1] = "lock"
       /\ (Creating("init_root") /\ handler' # handler /\ ~lastCmd'.ok) =>
             /\ handler' = NoHandler
             /\ UNCHANGED <<pc, workspaceReady, settings>>
       /\ (handler.name = "create_workspace" /\ workspaceReady' # workspaceReady) =>
             /\ Creating("create_base_vhd")
             /\ BaseMade
             /\ settings
             /\ workspaceReady'
             /\ uiStatus' = "initialized"
       /\ (Creating("create_base_vhd") /\ handler' = NoHandler /\ ~BaseMade) =>
             /\ ~workspaceReady'
             /\ uiStatus' = "error"
             /\ settings']_vars

\* create-workspace ended with the settings saved by init_root, no base disk
\* and the gate still shown
C28_SettingsSavedGateShown ==
    /\ handler = NoHandler
    /\ lastCmd = [name |-> "create_base_vhd", ok |-> FALSE]
    /\ settings
    /\ nodes = {}
    /\ ~workspaceReady
    /\ uiStatus = "error"

\* handleDelete gets the answer of delete_subtree in this step
DeleteAnswers == handler.name = "delete" /\ handler' = NoHandler

\* delete_subtree ended with its last node removed
DeleteDone ==
    /\ Len(ops) > handler.mark
    /\ ops[Len(ops)].action = "delete"
    /\ ops[Len(ops)].result = "success"

\* C29: when delete_subtree fails, the handler neither reloads the list nor
\* touches the list, the selection or the pending effects; when it succeeds
\* the handler calls refreshNodes, which invokes list_nodes.
C29_FailedDeleteLeavesList ==
    [][DeleteAnswers =>
          IF DeleteDone
          THEN listing' /\ lastCmd'.ok
          ELSE /\ UNCHANGED <<uiNodes, selectedNode, workspaceReady, listing, effects>>
               /\ ~lastCmd'.ok]_vars

\* a cascading delete removed a node and then failed: the list still shows
\* the removed node and no reload is under way
C29_ListShowsRemovedNode ==
    /\ handler = NoHandler
    /\ lastCmd = [name |-> "delete_subtree", ok |-> FALSE]
    /\ ~listing
    /\ effects = {}
    /\ \E id \in IdSet(uiNodes) :
          /\ id \notin NodeIds
          /\ \E r \in 1..Len(ops) : ops[r] = Row(id, "delete", "success")
    /\ selectedNode \in NodeIds

\* C30: list_nodes is invoked only from a render in which the workspace was
\* ready; the refreshNodes call of the handler that makes the workspace ready
\* invokes nothing, and leaves the refresh effect pending; with the workspace
\* ready and the effect pending list_nodes is eventually invoked; and when
\* list_nodes answers, the UI's list is set to the rows it returned.
C30_ListedOnceReady ==
    /\ [][/\ (listing' /\ ~listing) => workspaceReady
          /\ (workspaceReady' /\ ~workspaceReady) =>
                listing' = listing /\ "refresh" \in effects'
          /\ (listing /\ ~listing' /\ lastCmd' = [name |-> "list_nodes", ok |-> TRUE]) =>
                uiNodes' = Listed(nodes)]_vars
    /\ (workspaceReady /\ "refresh" \in effects) ~> listing

\* create-workspace was the only request made, and the list shows the base
\* disk: it was loaded by the refresh effect
C30_LoadedByEffect ==
    /\ calls = 1
    /\ workspaceReady
    /\ effects = {}
    /\ ~listing
    /\ lastCmd = [name |-> "list_nodes", ok |-> TRUE]
    /\ uiNodes # <<>>
    /\ uiNodes = Listed(nodes)

\* the UI invokes the command `handler'.step` in this step
Invokes == handler'.step # handler.step /\ handler'.step \notin {"none", "get_settings"}

\* C22: while the UI knows that administrator rights are absent it invokes no
\* destructive workflow, and without the rights no workflow of the backend
\* gets to a physical step.
C22_NothingDestructiveWithoutAdmin ==
    [][/\ (admin = "no" /\ Invokes) => handler'.step \notin Destructive
       /\ ~elevated => pc'[1] \in {"idle", "lock"}]_vars

\* list_nodes answers the first reload after the workspace was opened, and
\* nothing was changed behind the tool's back since
FirstListAfterOpen ==
    /\ listing /\ ~listing'
    /\ lastCmd' = [name |-> "list_nodes", ok |-> TRUE]
    /\ uiNodes = <<>>
    /\ oob = oobAtOpen

====
